---- MODULE Spec2Model ----
(***************************************************************************)
(* Twin import / spawn / chat lifecycle of the Minecraft mod               *)
(* (src/minecraft-mod/.../TwinCommands.kt).                                *)
(*                                                                         *)
(* Two execution contexts are modelled: the server ("main") thread, on     *)
(* which the command handlers and the tasks posted with                    *)
(* player.server.execute run, and the Dispatchers.IO workers, on which the *)
(* coroutines launched by importTwin and chatWithTwin run.                 *)
(***************************************************************************)
EXTENDS Integers, Sequences, FiniteSets, TLC

\* ------------------------------------------------------------------ bounds
\* Entities ever created by ModEntities.TWIN_ENTITY.create in one run.
MaxEntities == 2
\* Coroutines on Dispatchers.IO plus tasks queued on the server thread.
MaxInFlight == 1

\* ------------------------------------------------------------- strings
StartsWith(s, p) == Len(s) >= Len(p) /\ SubSeq(s, 1, Len(p)) = p

Contains(s, p) == \E i \in 1..(Len(s) - Len(p) + 1) : SubSeq(s, i, i + Len(p) - 1) = p

\* Kotlin String.replace(pat, ""): every non-overlapping occurrence, scanned
\* left to right, is removed; the result is not scanned again.
RECURSIVE RemoveFrom(_, _, _)
RemoveFrom(s, pat, i) ==
    IF Len(s) - i + 1 < Len(pat) THEN SubSeq(s, i, Len(s))
    ELSE IF SubSeq(s, i, i + Len(pat) - 1) = pat THEN RemoveFrom(s, pat, i + Len(pat))
    ELSE SubSeq(s, i, i) \o RemoveFrom(s, pat, i + 1)

RemoveAll(s, pat) == RemoveFrom(s, pat, 1)

\* A null String? of the Kotlin code.
Null == "<null>"

IsNullOrEmpty(s) == s = Null \/ s = ""

\* ------------------------------------------------------------- data
Names == {"maya", "alex"}

UsernameLookup == "https://replik.tech/api/minecraft/export/username/"

ChatPath == "/api/speak"

\* Records the remote profile service can answer with (TwinData).
Maya1 == [name |-> "maya", display_name |-> "Maya", twin_id |-> "t1",
          api_endpoint |-> "https://replik.tech/api/speak",
          minecraft_skin_url |-> Null, minecraft_username |-> Null]

Maya2 == [name |-> "maya", display_name |-> "Maya", twin_id |-> "t2",
          api_endpoint |-> "https://replik.tech/api/speak/v2",
          minecraft_skin_url |-> "https://skins/maya.png", minecraft_username |-> "maya_mc"]

Alex1 == [name |-> "alex", display_name |-> "Alex", twin_id |-> "t3",
          api_endpoint |-> "https://alex.example/api/speak",
          minecraft_skin_url |-> Null, minecraft_username |-> Null]

Profiles == {Maya1, Maya2, Alex1}

NoProfile == [name |-> Null, display_name |-> Null, twin_id |-> Null,
              api_endpoint |-> Null, minecraft_skin_url |-> Null, minecraft_username |-> Null]

\* Arguments of /twinimport.
Locators == {"maya", "saves/alex.json"}

\* Arguments of /twin <name> <message>.
Texts == {"hello"}

\* Replies of the remote chat service (TwinAPI.sendMessage).
Response(a) == [text |-> "hi", audioUrl |-> a]

Responses == {Response(Null), Response("/clip.mp3")}

NoResponse == [text |-> Null, audioUrl |-> Null]

NoEntity == 0

Msg(t, a) == [t |-> t, a |-> a]

Label(op, arg, player) == [op |-> op, arg |-> arg, player |-> player]

Task(k, url, twin, text, resp) ==
    [k |-> k, url |-> url, twin |-> twin, text |-> text, resp |-> resp]

\* ------------------------------------------------------------- state
VARIABLES
    directory,        \* TwinStorage: name -> TwinData or NoProfile
    spawnedEntities,  \* TwinCommands.spawnedEntities: name -> entity id or NoEntity
    entities,         \* entity id -> [twin, alive, inWorld]
    workers,          \* coroutines launched on Dispatchers.IO, not yet run
    mainQueue,        \* tasks posted with player.server.execute, FIFO
    out,              \* player.sendMessage calls of the last step
    net,              \* TwinAPI calls of the last step
    audio,            \* TwinAudioPlayer.playAudioFromUrl calls of the last step
    last,             \* the last step taken
    thr,              \* spawnTwin invocations running on threads of their own
    scen,             \* how far the run has followed Scenario, -1 once it left it
    photos,           \* Uploader: the photo slots that hold a file
    uploading,        \* Uploader: useState uploading
    processingFace,   \* Uploader: useState processingFace
    progress,         \* Uploader: useState progress
    isReady,          \* Uploader: useFaceMesh().isReady
    run,              \* Uploader: the handleSubmit invocation, where it waits and what it saw
    alerts,           \* Uploader: alert() calls of the last step
    completed         \* Uploader: number of onComplete(userId) calls

uploaderVars == <<photos, uploading, processingFace, progress, isReady, run, alerts, completed>>

vars == <<directory, spawnedEntities, entities, workers, mainQueue, out, net, audio, last,
          thr, scen, uploaderVars>>

Threads == {1, 2}

Idle == [pc |-> "idle", name |-> Null, ent |-> NoEntity, res |-> Null]

\* The five photo slots of the Uploader.
Slots == 1..5

\* handleSubmit is not running.
NoRun == [pc |-> "idle", ev |-> "none", photos |-> {}, ready |-> FALSE,
          landmarks |-> -1, posted |-> FALSE]

\* The Uploader as mounted: five empty slots, nothing in progress, MediaPipe
\* still loading.
UploaderInit ==
    /\ photos = {}
    /\ uploading = FALSE
    /\ processingFace = FALSE
    /\ progress = 0
    /\ isReady = FALSE
    /\ run = NoRun
    /\ alerts = <<>>
    /\ completed = 0

Init ==
    /\ UploaderInit
    /\ directory = [n \in Names |-> NoProfile]
    /\ spawnedEntities = [n \in Names |-> NoEntity]
    /\ entities = <<>>
    /\ workers = <<>>
    /\ mainQueue = <<>>
    /\ out = <<>>
    /\ net = <<>>
    /\ audio = <<>>
    /\ last = Label("init", Null, TRUE)
    /\ thr = [t \in Threads |-> Idle]
    /\ scen = 0

\* ------------------------------------------------------------- helpers
InFlight == Len(workers) + Len(mainQueue)

RemoveAt(s, i) == SubSeq(s, 1, i - 1) \o SubSeq(s, i + 1, Len(s))

\* isSpawned with the liveness flag compared the wrong way round.
isSpawnedInverted(name) ==
    /\ spawnedEntities[name] # NoEntity
    /\ ~entities[spawnedEntities[name]].alive

\* isSpawned written "?.isAlive != false": a missing entry counts as spawned.
isSpawnedNullIsTrue(name) ==
    \/ spawnedEntities[name] = NoEntity
    \/ entities[spawnedEntities[name]].alive

\* isSpawned that only looks for an entry and never asks the entity.
isSpawnedEntryOnly(name) == spawnedEntities[name] # NoEntity

\* spawnedEntities[name]?.isAlive == true
isSpawned(name) ==
    /\ spawnedEntities[name] # NoEntity
    /\ entities[spawnedEntities[name]].alive

\* TwinStorage.getTwinByName
getTwinByName(name) == directory[name]

\* A store that updates an existing record field by field and keeps its id.
addTwinMerge(dir, twinData) ==
    [dir EXCEPT ![twinData.name] =
        IF dir[twinData.name] = NoProfile THEN twinData
        ELSE [twinData EXCEPT !.twin_id = dir[twinData.name].twin_id]]

\* TwinStorage.addTwin: whole-record insert-or-replace under the record's name
addTwin(dir, twinData) == [dir EXCEPT ![twinData.name] = twinData]

\* TwinStorage.load
load == {directory[n] : n \in {m \in Names : directory[m] # NoProfile}}

finalUrl(urlOrUsername) ==
    IF StartsWith(urlOrUsername, "http") THEN urlOrUsername
    ELSE IF StartsWith(urlOrUsername, "@")
         THEN UsernameLookup \o SubSeq(urlOrUsername, 2, Len(urlOrUsername))
    ELSE IF ~Contains(urlOrUsername, "/") /\ ~Contains(urlOrUsername, ".")
         THEN UsernameLookup \o urlOrUsername
    ELSE urlOrUsername

\* A command from the console answered with a "players only" message.
NotAPlayerAnswered(op) ==
    /\ last' = Label(op, Null, FALSE)
    /\ out' = <<Msg("playersOnly", Null)>>
    /\ net' = <<>>
    /\ audio' = <<>>
    /\ UNCHANGED <<directory, spawnedEntities, entities, workers, mainQueue>>

\* A command whose source is not a player returns at once.
NotAPlayer(op) ==
    /\ last' = Label(op, Null, FALSE)
    /\ out' = <<>>
    /\ net' = <<>>
    /\ audio' = <<>>
    /\ UNCHANGED <<directory, spawnedEntities, entities, workers, mainQueue>>

\* ------------------------------------------------------------- /twinimport
\* The command trying the download itself before it hands over to the coroutine.
importTwinInline(urlOrUsername, isPlayer) ==
    IF ~isPlayer THEN NotAPlayer("import")
    ELSE
        /\ out' = <<Msg("downloading", Null)>>
        /\ workers' = Append(workers, Task("import", finalUrl(urlOrUsername), NoProfile, Null, NoResponse))
        /\ last' = Label("import", urlOrUsername, TRUE)
        /\ net' = <<[op |-> "downloadTwin", url |-> finalUrl(urlOrUsername),
                     twin_id |-> Null, text |-> Null]>>
        /\ audio' = <<>>
        /\ UNCHANGED <<directory, spawnedEntities, entities, mainQueue>>

importTwin(urlOrUsername, isPlayer) ==
    IF ~isPlayer THEN NotAPlayer("import")
    ELSE
        /\ out' = <<Msg("downloading", Null)>>
        /\ workers' = Append(workers, Task("import", finalUrl(urlOrUsername), NoProfile, Null, NoResponse))
        /\ last' = Label("import", urlOrUsername, TRUE)
        /\ net' = <<>>
        /\ audio' = <<>>
        /\ UNCHANGED <<directory, spawnedEntities, entities, mainQueue>>

\* addTwin moved ahead of the point where a bad download throws.
storeDownloadedAlways(ok, twinData) == addTwin(directory, twinData)

\* The store rewritten from the downloaded record alone: the other names go.
storeDownloadedFresh(ok, twinData) ==
    IF ok THEN [n \in Names |-> IF n = twinData.name THEN twinData ELSE NoProfile]
    ELSE directory

\* The record stored only when its name is new: insert without replace.
storeDownloadedOnce(ok, twinData) ==
    IF ok /\ directory[twinData.name] = NoProfile THEN addTwin(directory, twinData)
    ELSE directory

\* try { downloadTwin; addTwin }: a download that throws skips addTwin.
storeDownloaded(ok, twinData) == IF ok THEN addTwin(directory, twinData) ELSE directory

\* The coroutine of importTwin: TwinAPI.downloadTwin, then TwinStorage.addTwin,
\* then the success task is posted; any exception posts the failure task.
ImportWorker(i, ok, twinData) ==
    /\ i \in 1..Len(workers)
    /\ workers[i].k = "import"
    /\ workers' = RemoveAt(workers, i)
    /\ net' = <<[op |-> "downloadTwin", url |-> workers[i].url, twin_id |-> Null, text |-> Null]>>
    /\ directory' = storeDownloaded(ok, twinData)
    /\ IF ok
       THEN /\ mainQueue' = Append(mainQueue, Task("importOk", Null, twinData, Null, NoResponse))
            /\ last' = Label("downloadOk", twinData.name, TRUE)
       ELSE /\ mainQueue' = Append(mainQueue, Task("importFail", Null, NoProfile, Null, NoResponse))
            /\ last' = Label("downloadFail", Null, TRUE)
    /\ out' = <<>>
    /\ audio' = <<>>
    /\ UNCHANGED <<spawnedEntities, entities>>

\* Tasks posted by the import coroutine, run on the server thread.
ImportDone(task) ==
    /\ out' = IF task.k = "importFail"
              THEN <<Msg("importFailed", Null)>>
              ELSE <<Msg("loaded", task.twin.display_name)>>
                   \o (IF ~IsNullOrEmpty(task.twin.minecraft_skin_url)
                       THEN <<Msg("skin", task.twin.minecraft_username)>>
                       ELSE <<>>)
    /\ audio' = <<>>

\* ------------------------------------------------------------- /twinlist
NameOrder == <<"maya", "alex">>

RECURSIVE ListEntries(_)
ListEntries(i) ==
    IF i > Len(NameOrder) THEN <<>>
    ELSE (IF directory[NameOrder[i]] = NoProfile THEN <<>>
          ELSE <<Msg(IF isSpawned(directory[NameOrder[i]].name) THEN "entrySpawned" ELSE "entryNotSpawned",
                     directory[NameOrder[i]].display_name)>>)
         \o ListEntries(i + 1)

listTwins(isPlayer) ==
    IF ~isPlayer THEN NotAPlayer("list")
    ELSE
        /\ out' = IF load = {} THEN <<Msg("noTwins", Null)>>
                  ELSE <<Msg("listHeader", Null)>> \o ListEntries(1)
        /\ last' = Label("list", Null, TRUE)
        /\ net' = <<>>
        /\ audio' = <<>>
        /\ UNCHANGED <<directory, spawnedEntities, entities, workers, mainQueue>>

\* ------------------------------------------------------------- /twinspawn
\* A construction failure reported with the text of the missing-profile case.
createFailedAsNotFound == <<Msg("twinNotFoundImportFirst", Null)>>

\* The notification of a null ModEntities.TWIN_ENTITY.create(world).
createFailed == <<Msg("createFailed", Null)>>

\* spawnedEntities[name] = twinEntity
register(name, e) == [spawnedEntities EXCEPT ![name] = e]

\* created: ModEntities.TWIN_ENTITY.create(world) returned an entity.
\* The spawn without the Directory lookup: any name gets an entity.
spawnTwinUnchecked(name, isPlayer, created) ==
    IF ~isPlayer THEN NotAPlayer("spawn")
    ELSE
        /\ last' = Label("spawn", name, TRUE)
        /\ net' = <<>>
        /\ audio' = <<>>
        /\ UNCHANGED <<directory, workers, mainQueue>>
        /\ IF isSpawned(name)
           THEN /\ out' = <<Msg("alreadySpawned", name)>>
                /\ UNCHANGED <<spawnedEntities, entities>>
           ELSE IF ~created
           THEN /\ out' = createFailed
                /\ UNCHANGED <<spawnedEntities, entities>>
           ELSE /\ Len(entities) < MaxEntities
                /\ entities' = Append(entities, [twin |-> name, alive |-> TRUE, inWorld |-> TRUE])
                /\ spawnedEntities' = register(name, Len(entities) + 1)
                /\ out' = <<Msg("spawned", name), Msg("chatHint", name)>>

spawnTwin(name, isPlayer, created) ==
    IF ~isPlayer THEN NotAPlayer("spawn")
    ELSE
        /\ last' = Label("spawn", name, TRUE)
        /\ net' = <<>>
        /\ audio' = <<>>
        /\ UNCHANGED <<directory, workers, mainQueue>>
        /\ IF isSpawned(name)
           THEN /\ out' = <<Msg("alreadySpawned", name)>>
                /\ UNCHANGED <<spawnedEntities, entities>>
           ELSE IF getTwinByName(name) = NoProfile
           THEN /\ out' = <<Msg("twinNotFoundImportFirst", name)>>
                /\ UNCHANGED <<spawnedEntities, entities>>
           ELSE IF ~created
           THEN /\ out' = createFailed
                /\ UNCHANGED <<spawnedEntities, entities>>
           ELSE /\ Len(entities) < MaxEntities
                /\ entities' = Append(entities, [twin |-> name, alive |-> TRUE, inWorld |-> TRUE])
                /\ spawnedEntities' = register(name, Len(entities) + 1)
                /\ out' = <<Msg("spawned", getTwinByName(name).display_name),
                            Msg("chatHint", getTwinByName(name).name)>>

\* ------------------------------------------------------------- /twin
\* The lookup made conditional on the twin being spawned.
chatTargetSpawnedOnly(name) == IF isSpawned(name) THEN getTwinByName(name) ELSE NoProfile

\* val twinData = TwinStorage.getTwinByName(name): the Directory alone decides.
chatTarget(name) == getTwinByName(name)

\* The "thinking" notification sent ahead of the Directory lookup.
chatWithTwinEager(name, message, isPlayer) ==
    IF ~isPlayer THEN NotAPlayer("chat")
    ELSE
        /\ last' = Label("chat", name, TRUE)
        /\ net' = <<>>
        /\ audio' = <<>>
        /\ UNCHANGED <<directory, spawnedEntities, entities, mainQueue>>
        /\ IF chatTarget(name) = NoProfile
           THEN /\ out' = <<Msg("thinking", name), Msg("twinNotFound", name)>>
                /\ UNCHANGED workers
           ELSE /\ InFlight < MaxInFlight
                /\ out' = <<Msg("thinking", chatTarget(name).display_name)>>
                /\ workers' = Append(workers, Task("chat", Null, chatTarget(name), message, NoResponse))

chatWithTwin(name, message, isPlayer) ==
    IF ~isPlayer THEN NotAPlayer("chat")
    ELSE
        /\ last' = Label("chat", name, TRUE)
        /\ net' = <<>>
        /\ audio' = <<>>
        /\ UNCHANGED <<directory, spawnedEntities, entities, mainQueue>>
        /\ IF chatTarget(name) = NoProfile
           THEN /\ out' = <<Msg("twinNotFound", name)>>
                /\ UNCHANGED workers
           ELSE /\ InFlight < MaxInFlight
                /\ out' = <<Msg("thinking", chatTarget(name).display_name)>>
                /\ workers' = Append(workers, Task("chat", Null, chatTarget(name), message, NoResponse))

\* The coroutine of chatWithTwin: TwinAPI.sendMessage, then the reply task is
\* posted; any exception posts the failure task.
ChatWorker(i, ok, response) ==
    /\ i \in 1..Len(workers)
    /\ workers[i].k = "chat"
    /\ workers' = RemoveAt(workers, i)
    /\ net' = <<[op |-> "sendMessage", url |-> workers[i].twin.api_endpoint,
                 twin_id |-> workers[i].twin.twin_id, text |-> workers[i].text]>>
    /\ IF ok
       THEN /\ mainQueue' = Append(mainQueue, Task("chatOk", Null, workers[i].twin, workers[i].text, response))
            /\ last' = Label("sendOk", workers[i].twin.name, TRUE)
       ELSE /\ mainQueue' = Append(mainQueue, Task("chatFail", Null, NoProfile, Null, NoResponse))
            /\ last' = Label("sendFail", workers[i].twin.name, TRUE)
    /\ out' = <<>>
    /\ audio' = <<>>
    /\ UNCHANGED <<directory, spawnedEntities, entities>>

fullAudioUrl(api_endpoint, audioUrl) ==
    IF StartsWith(audioUrl, "http") THEN audioUrl
    ELSE RemoveAll(api_endpoint, ChatPath) \o audioUrl

\* The catch block of the chat coroutine left empty: the failure is swallowed.
ChatDoneSwallowed(task) ==
    IF task.k = "chatFail"
    THEN /\ out' = <<>>
         /\ audio' = <<>>
    ELSE /\ out' = <<Msg("reply", "[" \o task.twin.display_name \o "] " \o task.resp.text)>>
         /\ audio' = <<>>

\* Tasks posted by the chat coroutine, run on the server thread.
ChatDone(task) ==
    IF task.k = "chatFail"
    THEN /\ out' = <<Msg("chatFailed", Null), Msg("connectivityHint", Null)>>
         /\ audio' = <<>>
    ELSE IF ~IsNullOrEmpty(task.resp.audioUrl)
    THEN /\ out' = <<Msg("reply", "[" \o task.twin.display_name \o "] " \o task.resp.text),
                     Msg("playingVoice", Null)>>
         /\ audio' = <<fullAudioUrl(task.twin.api_endpoint, task.resp.audioUrl)>>
    ELSE /\ out' = <<Msg("reply", "[" \o task.twin.display_name \o "] " \o task.resp.text)>>
         /\ audio' = <<>>

\* The server thread runs the next task posted with player.server.execute.
MainExecute ==
    /\ mainQueue # <<>>
    /\ mainQueue' = Tail(mainQueue)
    /\ IF Head(mainQueue).k \in {"importOk", "importFail"}
       THEN ImportDone(Head(mainQueue))
       ELSE ChatDone(Head(mainQueue))
    /\ last' = Label(Head(mainQueue).k, Head(mainQueue).twin.name, TRUE)
    /\ net' = <<>>
    /\ UNCHANGED <<directory, spawnedEntities, entities, workers>>

\* ------------------------------------------------------------- /twinremove
\* entity.discard()
discard(ents, e) == [ents EXCEPT ![e].alive = FALSE, ![e].inWorld = FALSE]

\* The map entry left behind.
unregisterNothing(name) == spawnedEntities

\* spawnedEntities.remove(name)
unregister(name) == [spawnedEntities EXCEPT ![name] = NoEntity]

removeTwin(name, isPlayer) ==
    IF ~isPlayer THEN NotAPlayer("remove")
    ELSE
        /\ last' = Label("remove", name, TRUE)
        /\ net' = <<>>
        /\ audio' = <<>>
        /\ UNCHANGED <<directory, workers, mainQueue>>
        /\ IF ~isSpawned(name)
           THEN /\ out' = <<Msg("notSpawned", name)>>
                /\ UNCHANGED <<spawnedEntities, entities>>
           ELSE /\ IF spawnedEntities[name] # NoEntity
                   THEN /\ entities' = discard(entities, spawnedEntities[name])
                        /\ spawnedEntities' = unregister(name)
                   ELSE UNCHANGED <<spawnedEntities, entities>>
                /\ out' = <<Msg("despawned", name)>>

\* ------------------------------------------------------------- the world
\* A death that also takes the entity's entry out of spawnedEntities.
DiePurging(e) ==
    /\ e \in 1..Len(entities)
    /\ entities[e].alive
    /\ entities[e].inWorld
    /\ entities' = discard(entities, e)
    /\ spawnedEntities' = [n \in Names |-> IF spawnedEntities[n] = e THEN NoEntity
                                           ELSE spawnedEntities[n]]
    /\ last' = Label("die", entities[e].twin, TRUE)
    /\ out' = <<>>
    /\ net' = <<>>
    /\ audio' = <<>>
    /\ UNCHANGED <<directory, workers, mainQueue>>

\* A spawned entity terminates by itself (it is killed or unloaded): isAlive
\* turns false, spawnedEntities is not told.
Die(e) ==
    /\ e \in 1..Len(entities)
    /\ entities[e].alive
    /\ entities[e].inWorld
    /\ entities' = discard(entities, e)
    /\ last' = Label("die", entities[e].twin, TRUE)
    /\ out' = <<>>
    /\ net' = <<>>
    /\ audio' = <<>>
    /\ UNCHANGED <<directory, spawnedEntities, workers, mainQueue>>

\* ------------------------------------------------------------- scenario
\* import "maya", spawn "maya", message "maya" "hello", remove "maya", list,
\* each command run to completion before the next.
Scenario ==
    <<Label("import", "maya", TRUE), Label("downloadOk", "maya", TRUE),
      Label("importOk", "maya", TRUE), Label("spawn", "maya", TRUE),
      Label("chat", "maya", TRUE), Label("sendOk", "maya", TRUE),
      Label("chatOk", "maya", TRUE), Label("remove", "maya", TRUE),
      Label("list", Null, TRUE)>>

\* The run follows the scenario while every step is the scenario's next step
\* (the entity construction of its spawn returning an entity).
Follow ==
    /\ scen' = IF /\ scen \in 0..(Len(Scenario) - 1)
                  /\ last' = Scenario[scen + 1]
                  /\ out' # createFailed
               THEN scen + 1
               ELSE -1
    /\ UNCHANGED uploaderVars

\* ------------------------------------------------------------- specification
Import == /\ \E l \in Locators, p \in BOOLEAN :
                /\ p => InFlight < MaxInFlight
                /\ importTwin(l, p)
          /\ UNCHANGED thr
          /\ Follow

Download == /\ \E i \in 1..MaxInFlight, ok \in BOOLEAN, d \in Profiles : ImportWorker(i, ok, d)
            /\ UNCHANGED thr
            /\ Follow

List == /\ \E p \in BOOLEAN : listTwins(p)
        /\ UNCHANGED thr
        /\ Follow

Spawn == /\ \E n \in Names, p \in BOOLEAN, c \in BOOLEAN : spawnTwin(n, p, c)
         /\ UNCHANGED thr
         /\ Follow

Chat == /\ \E n \in Names, m \in Texts, p \in BOOLEAN : chatWithTwin(n, m, p)
        /\ UNCHANGED thr
        /\ Follow

Send == /\ \E i \in 1..MaxInFlight, ok \in BOOLEAN, r \in Responses : ChatWorker(i, ok, r)
        /\ UNCHANGED thr
        /\ Follow

Remove == /\ \E n \in Names, p \in BOOLEAN : removeTwin(n, p)
          /\ UNCHANGED thr
          /\ Follow

Terminate == /\ \E e \in 1..MaxEntities : Die(e)
             /\ UNCHANGED thr
             /\ Follow

Execute == /\ MainExecute
           /\ UNCHANGED thr
           /\ Follow

Next ==
    \/ Import
    \/ Download
    \/ List
    \/ Spawn
    \/ Chat
    \/ Send
    \/ Remove
    \/ Terminate
    \/ Execute

Spec == Init /\ [][Next]_vars

\* ------------------------------------------------------------- concurrent spawns
\* spawnTwin run by a thread of its own, one statement group at a time: the
\* isSpawned check, the profile lookup, the entity construction, the world
\* spawn and the map put are separate steps that other threads interleave with.
Finish(t, res) == thr' = [thr EXCEPT ![t].pc = "done", ![t].res = res]

Goto(t, pc) == thr' = [thr EXCEPT ![t].pc = pc]

ThreadStep(op, name) ==
    /\ last' = Label(op, name, TRUE)
    /\ net' = <<>>
    /\ audio' = <<>>
    /\ UNCHANGED <<directory, workers, mainQueue>>

SpawnBegin(t, name) ==
    /\ thr[t].pc = "idle"
    /\ thr' = [thr EXCEPT ![t].pc = "check", ![t].name = name]
    /\ ThreadStep("spawn.begin", name)
    /\ out' = <<>>
    /\ UNCHANGED <<spawnedEntities, entities>>

SpawnCheck(t) ==
    /\ thr[t].pc = "check"
    /\ ThreadStep("spawn.check", thr[t].name)
    /\ IF isSpawned(thr[t].name)
       THEN /\ out' = <<Msg("alreadySpawned", thr[t].name)>>
            /\ Finish(t, "conflict")
       ELSE /\ out' = <<>>
            /\ Goto(t, "lookup")
    /\ UNCHANGED <<spawnedEntities, entities>>

SpawnLookup(t) ==
    /\ thr[t].pc = "lookup"
    /\ ThreadStep("spawn.lookup", thr[t].name)
    /\ IF getTwinByName(thr[t].name) = NoProfile
       THEN /\ out' = <<Msg("twinNotFoundImportFirst", thr[t].name)>>
            /\ Finish(t, "notFound")
       ELSE /\ out' = <<>>
            /\ Goto(t, "create")
    /\ UNCHANGED <<spawnedEntities, entities>>

SpawnCreate(t, created) ==
    /\ thr[t].pc = "create"
    /\ ThreadStep("spawn.create", thr[t].name)
    /\ IF ~created
       THEN /\ out' = createFailed
            /\ Finish(t, "failed")
            /\ UNCHANGED entities
       ELSE /\ Len(entities) < MaxEntities
            /\ out' = <<>>
            /\ entities' = Append(entities, [twin |-> thr[t].name, alive |-> TRUE, inWorld |-> FALSE])
            /\ thr' = [thr EXCEPT ![t].pc = "world", ![t].ent = Len(entities) + 1]
    /\ UNCHANGED spawnedEntities

SpawnIntoWorld(t) ==
    /\ thr[t].pc = "world"
    /\ ThreadStep("spawn.world", thr[t].name)
    /\ entities' = [entities EXCEPT ![thr[t].ent].inWorld = TRUE]
    /\ out' = <<>>
    /\ Goto(t, "put")
    /\ UNCHANGED spawnedEntities

SpawnPut(t) ==
    /\ thr[t].pc = "put"
    /\ ThreadStep("spawn.put", thr[t].name)
    /\ spawnedEntities' = register(thr[t].name, thr[t].ent)
    /\ out' = <<Msg("spawned", getTwinByName(thr[t].name).display_name),
                Msg("chatHint", getTwinByName(thr[t].name).name)>>
    /\ Finish(t, "ok")
    /\ UNCHANGED entities

Begin == (\E t \in Threads, n \in Names : SpawnBegin(t, n)) /\ Follow

Check == (\E t \in Threads : SpawnCheck(t)) /\ Follow

Lookup == (\E t \in Threads : SpawnLookup(t)) /\ Follow

Create == (\E t \in Threads, c \in BOOLEAN : SpawnCreate(t, c)) /\ Follow

IntoWorld == (\E t \in Threads : SpawnIntoWorld(t)) /\ Follow

Put == (\E t \in Threads : SpawnPut(t)) /\ Follow

NextConc ==
    \/ Import
    \/ Download
    \/ Execute
    \/ Terminate
    \/ Begin
    \/ Check
    \/ Lookup
    \/ Create
    \/ IntoWorld
    \/ Put

SpecConc == Init /\ [][NextConc]_vars

\* ------------------------------------------------------------- concurrent removes
\* removeTwin statement by statement, for two callers at once: the isSpawned
\* check, the spawnedEntities[name] lookup, the body of ?.let, the message.
RemoveBegin(t, name) ==
    /\ thr[t].pc = "idle"
    /\ thr' = [thr EXCEPT ![t].pc = "rcheck", ![t].name = name]
    /\ ThreadStep("remove.begin", name)
    /\ out' = <<>>
    /\ UNCHANGED <<spawnedEntities, entities>>

\* if (!isSpawned(name)) { ...; return }
RemoveCheck(t) ==
    /\ thr[t].pc = "rcheck"
    /\ ThreadStep("remove.check", thr[t].name)
    /\ IF ~isSpawned(thr[t].name)
       THEN /\ out' = <<Msg("notSpawned", thr[t].name)>>
            /\ Finish(t, "notSpawned")
       ELSE /\ out' = <<>>
            /\ Goto(t, "rlookup")
    /\ UNCHANGED <<spawnedEntities, entities>>

\* spawnedEntities[name]?.let: a missing entry skips the body.
RemoveLookup(t) ==
    /\ thr[t].pc = "rlookup"
    /\ ThreadStep("remove.lookup", thr[t].name)
    /\ thr' = [thr EXCEPT ![t].ent = spawnedEntities[thr[t].name],
                          ![t].pc = IF spawnedEntities[thr[t].name] = NoEntity
                                    THEN "rconfirm" ELSE "rdiscard"]
    /\ out' = <<>>
    /\ UNCHANGED <<spawnedEntities, entities>>

\* entity.discard(); spawnedEntities.remove(name)
RemoveDiscard(t) ==
    /\ thr[t].pc = "rdiscard"
    /\ ThreadStep("remove.discard", thr[t].name)
    /\ entities' = discard(entities, thr[t].ent)
    /\ spawnedEntities' = unregister(thr[t].name)
    /\ thr' = [thr EXCEPT ![t].pc = "rconfirm",
                          ![t].res = IF entities[thr[t].ent].alive
                                     THEN "terminated" ELSE "wasDead"]
    /\ out' = <<>>

\* The "Despawned" message, sent whether or not the body of ?.let ran.
RemoveConfirm(t) ==
    /\ thr[t].pc = "rconfirm"
    /\ ThreadStep("remove.confirm", thr[t].name)
    /\ out' = <<Msg("despawned", thr[t].name)>>
    /\ thr' = [thr EXCEPT ![t].pc = "confirmed"]
    /\ UNCHANGED <<spawnedEntities, entities>>

RBegin == (\E t \in Threads, n \in Names : RemoveBegin(t, n)) /\ Follow

RCheck == (\E t \in Threads : RemoveCheck(t)) /\ Follow

RLookup == (\E t \in Threads : RemoveLookup(t)) /\ Follow

RDiscard == (\E t \in Threads : RemoveDiscard(t)) /\ Follow

RConfirm == (\E t \in Threads : RemoveConfirm(t)) /\ Follow

NextRemove ==
    \/ Import
    \/ Download
    \/ Execute
    \/ Spawn
    \/ Terminate
    \/ RBegin
    \/ RCheck
    \/ RLookup
    \/ RDiscard
    \/ RConfirm

SpecRemove == Init /\ [][NextRemove]_vars

\* ------------------------------------------------------------- locators
\* Usernames without '/' and '.', some of them starting with the letters http.
UserPieces == {"maya", "alex", "http", "_"}

Usernames == {p \o q : p \in UserPieces, q \in UserPieces \cup {""}}

\* Every shape of /twinimport argument: a bare username, @username, the
\* username-lookup URL, another URL, a file path.
UrlInputs ==
    Usernames
    \cup {"@" \o u : u \in Usernames}
    \cup {UsernameLookup \o u : u \in Usernames}
    \cup {"https://replik.tech/api/minecraft/export/42", "saves/maya.json", "maya.json"}

ImportAny == /\ \E l \in UrlInputs, p \in BOOLEAN :
                   /\ p => InFlight < MaxInFlight
                   /\ importTwin(l, p)
             /\ UNCHANGED thr
             /\ Follow

NextUrl ==
    \/ ImportAny
    \/ Download
    \/ Execute

SpecUrl == Init /\ [][NextUrl]_vars

\* ------------------------------------------------------------- audio replies
\* The audio locators a reply can carry: none, empty, relative, absolute.
AudioLocators == {Null, "", "/clip.mp3", "https://cdn.replik.tech/clip.mp3"}

SendAny == /\ \E i \in 1..MaxInFlight, ok \in BOOLEAN, a \in AudioLocators :
                 ChatWorker(i, ok, Response(a))
           /\ UNCHANGED thr
           /\ Follow

NextAudio ==
    \/ Import
    \/ Download
    \/ Chat
    \/ SendAny
    \/ Execute

SpecAudio == Init /\ [][NextAudio]_vars

\* ------------------------------------------------------------- asynchronous commands
\* The two commands that go to the network, with their coroutines and posted
\* tasks. Dispatchers.IO runs every launched coroutine and the server thread
\* runs every posted task: each is taken once it stays enabled.
DownloadAt(i) == /\ \E ok \in BOOLEAN, d \in Profiles : ImportWorker(i, ok, d)
                 /\ UNCHANGED thr
                 /\ Follow

SendAt(i) == /\ \E ok \in BOOLEAN, r \in Responses : ChatWorker(i, ok, r)
             /\ UNCHANGED thr
             /\ Follow

NextAsync ==
    \/ Import
    \/ Download
    \/ Chat
    \/ Send
    \/ Execute

SpecAsync ==
    /\ Init
    /\ [][NextAsync]_vars
    /\ \A i \in 1..MaxInFlight : WF_vars(DownloadAt(i)) /\ WF_vars(SendAt(i))
    /\ WF_vars(Execute)

\* ------------------------------------------------------------- outstanding imports
\* Imports by a player, several of them launched before any coroutine runs;
\* Dispatchers.IO is a thread pool, so the coroutines finish in any order.
MaxOutstanding == 2

ImportPair == /\ InFlight < MaxOutstanding
              /\ \E l \in Locators : importTwin(l, TRUE)
              /\ UNCHANGED thr
              /\ Follow

DownloadPair == /\ \E i \in 1..MaxOutstanding, ok \in BOOLEAN, d \in Profiles :
                      ImportWorker(i, ok, d)
                /\ UNCHANGED thr
                /\ Follow

NextPair ==
    \/ ImportPair
    \/ DownloadPair
    \/ Execute

SpecPair == Init /\ [][NextPair]_vars

\* ------------------------------------------------------------- Uploader
\* The submit workflow of the Uploader component (CloneBrowser.tsx), one step
\* per stretch of handleSubmit between two awaits.
MaxCompleted == 2

\* What processFaceImages can give: it throws, it returns null, or it returns
\* a result whose landmarks are missing (-1) or have n points.
Detections ==
    {[k |-> "throws", n |-> -1], [k |-> "null", n |-> -1], [k |-> "result", n |-> -1],
     [k |-> "result", n |-> 467], [k |-> "result", n |-> 468], [k |-> "result", n |-> 478]}

\* A check that only asks for landmarks to be there.
landmarksPresent(n) == n >= 0

\* !(!landmarks || landmarks.length < 468)
landmarksComplete(n) == n >= 0 /\ ~(n < 468)

\* The catch block of handleSubmit.
catchError(ev, said) ==
    /\ alerts' = said \o <<"failedToProcess">>
    /\ uploading' = FALSE
    /\ processingFace' = FALSE
    /\ run' = [run EXCEPT !.pc = "idle", !.ev = ev]

TwinWorld == <<directory, spawnedEntities, entities, workers, mainQueue, out, net, audio,
               last, thr, scen>>

\* handleFileUpload / capturePhoto: a slot receives a file.
SetPhoto ==
    /\ \E i \in Slots : photos' = photos \cup {i}
    /\ alerts' = <<>>
    /\ run' = [run EXCEPT !.ev = "photo"]
    /\ UNCHANGED <<uploading, processingFace, progress, isReady, completed>>
    /\ UNCHANGED TwinWorld

\* useFaceMesh finishes loading MediaPipe.
FaceMeshReady ==
    /\ ~isReady
    /\ isReady' = TRUE
    /\ alerts' = <<>>
    /\ run' = [run EXCEPT !.ev = "ready"]
    /\ UNCHANGED <<photos, uploading, processingFace, progress, completed>>
    /\ UNCHANGED TwinWorld

\* handleSubmit up to its first await. The submit button is disabled while
\* uploading is true; the check of the slots is handleSubmit's own.
Submit ==
    /\ ~uploading
    /\ run.pc = "idle"
    /\ completed < MaxCompleted
    /\ IF photos # Slots
       THEN /\ alerts' = <<"allPhotos">>
            /\ run' = [run EXCEPT !.ev = "submitRejected"]
            /\ UNCHANGED <<uploading, processingFace, progress>>
       ELSE /\ progress' = 0
            /\ IF ~isReady
               THEN /\ alerts' = <<"stillLoading", "failedToProcess">>
                    /\ uploading' = FALSE
                    /\ processingFace' = FALSE
                    /\ run' = [pc |-> "idle", ev |-> "submitFailed", photos |-> photos,
                               ready |-> FALSE, landmarks |-> -1, posted |-> FALSE]
               ELSE /\ alerts' = <<>>
                    /\ uploading' = TRUE
                    /\ processingFace' = TRUE
                    /\ run' = [pc |-> "detect", ev |-> "submitStarted", photos |-> photos,
                               ready |-> TRUE, landmarks |-> -1, posted |-> FALSE]
    /\ UNCHANGED <<photos, isReady, completed>>
    /\ UNCHANGED TwinWorld

\* await processFaceImages(validPhotos) returns or throws.
Detect ==
    /\ run.pc = "detect"
    /\ \E d \in Detections :
          IF d.k = "throws" THEN catchError("detectFailed", <<>>)
          ELSE IF d.k = "null" THEN catchError("detectFailed", <<"noFace">>)
          ELSE IF ~landmarksComplete(d.n) THEN catchError("detectFailed", <<"incomplete">>)
          ELSE /\ run' = [run EXCEPT !.pc = "mock", !.ev = "detected", !.landmarks = d.n]
               /\ alerts' = <<>>
               /\ UNCHANGED <<uploading, processingFace>>
    /\ UNCHANGED <<photos, progress, isReady, completed>>
    /\ UNCHANGED TwinWorld

\* await fetch('/api/mock-face') and its json(), then applyMediapipeToMockFace;
\* when all three go through, the upload is posted.
Prepare ==
    /\ run.pc = "mock"
    /\ \E fetched \in BOOLEAN, applied \in BOOLEAN :
          IF ~fetched \/ ~applied
          THEN /\ catchError("prepareFailed", <<>>)
               /\ UNCHANGED progress
          ELSE /\ processingFace' = FALSE
               /\ progress' = 50
               /\ run' = [run EXCEPT !.pc = "post", !.ev = "prepared"]
               /\ alerts' = <<>>
               /\ UNCHANGED uploading
    /\ UNCHANGED <<photos, isReady, completed>>
    /\ UNCHANGED TwinWorld

\* await axios.post('/api/update-user', ...) resolves or rejects.
Post ==
    /\ run.pc = "post"
    /\ \E ok \in BOOLEAN :
          IF ~ok
          THEN /\ catchError("postFailed", <<>>)
               /\ UNCHANGED progress
          ELSE /\ progress' = 100
               /\ run' = [run EXCEPT !.pc = "timer", !.ev = "posted", !.posted = TRUE]
               /\ alerts' = <<>>
               /\ UNCHANGED <<uploading, processingFace>>
    /\ UNCHANGED <<photos, isReady, completed>>
    /\ UNCHANGED TwinWorld

\* The setTimeout callback: setUploading(false); onComplete(userId).
Complete ==
    /\ run.pc = "timer"
    /\ uploading' = FALSE
    /\ completed' = completed + 1
    /\ run' = [run EXCEPT !.pc = "idle", !.ev = "completed"]
    /\ alerts' = <<>>
    /\ UNCHANGED <<photos, processingFace, progress, isReady>>
    /\ UNCHANGED TwinWorld

NextUpload ==
    \/ SetPhoto
    \/ FaceMeshReady
    \/ Submit
    \/ Detect
    \/ Prepare
    \/ Post
    \/ Complete

SpecUpload == Init /\ [][NextUpload]_vars

\* ------------------------------------------------------------- properties
\* Registry.isLive of the specification: an entry exists and its entity's
\* liveness flag is true.
isLive(name) ==
    /\ spawnedEntities[name] # NoEntity
    /\ entities[spawnedEntities[name]].alive

\* The entities of a twin that are alive in the world.
LiveInstances(name) ==
    {e \in 1..Len(entities) :
        entities[e].twin = name /\ entities[e].alive /\ entities[e].inWorld}

\* A spawn of the name has succeeded at some time: it created an entity.
SpawnedBefore(name) == \E e \in 1..Len(entities) : entities[e].twin = name

SpawnedOk(name) ==
    /\ last = Label("spawn", name, TRUE)
    /\ Len(out) = 2
    /\ out[1].t = "spawned"

\* C1: commands handled one after the other leave at most one live instance
\* per profile name in the world; a spawn of a name that has a live instance
\* answers "already spawned", leaves the registered instance registered and
\* puts no entity into the world.
C1_AtMostOneLiveInstance ==
    [][\A n \in Names :
        /\ Cardinality(LiveInstances(n)') <= 1
        /\ (last' = Label("spawn", n, TRUE) /\ isLive(n))
              => /\ out' = <<Msg("alreadySpawned", n)>>
                 /\ spawnedEntities' = spawnedEntities
                 /\ entities' = entities]_vars

C1_Witness ==
    \E n \in Names :
        /\ last = Label("spawn", n, TRUE)
        /\ out = <<Msg("alreadySpawned", n)>>
        /\ Cardinality(LiveInstances(n)) = 1
        /\ spawnedEntities[n] \in LiveInstances(n)

\* C3: a remove of a name no spawn ever succeeded for answers "not currently
\* spawned" and changes nothing; a remove of a name with a live instance
\* answers with the confirmation and the name is not live afterwards; a name
\* that is not live becomes live only by a successful spawn of that name.
C3_RemoveNotFoundThenNotLive ==
    [][\A n \in Names :
        /\ (last' = Label("remove", n, TRUE) /\ ~SpawnedBefore(n))
              => /\ out' = <<Msg("notSpawned", n)>>
                 /\ UNCHANGED <<directory, spawnedEntities, entities, workers, mainQueue>>
        /\ (last' = Label("remove", n, TRUE) /\ isLive(n))
              => /\ out' = <<Msg("despawned", n)>>
                 /\ ~isLive(n)'
                 /\ ~entities'[spawnedEntities[n]].alive
        /\ (~isLive(n) /\ isLive(n)') => SpawnedOk(n)']_vars

C3_Witness ==
    \E n \in Names :
        /\ last = Label("remove", n, TRUE)
        /\ out = <<Msg("despawned", n)>>
        /\ SpawnedBefore(n)
        /\ ~isLive(n)

\* C5: a spawn that fails leaves the Registry and the world as they were, and
\* the three reasons have three notifications: "already spawned" exactly when
\* the name is live, "twin not found" exactly when it is not live and has no
\* profile, and otherwise either success or "failed to create".
C5_FailedSpawnCommitsNothing ==
    [][\A n \in Names :
        last' = Label("spawn", n, TRUE) =>
            /\ (out' = <<Msg("alreadySpawned", n)>>) <=> isLive(n)
            /\ (out' = <<Msg("twinNotFoundImportFirst", n)>>)
                  <=> (~isLive(n) /\ directory[n] = NoProfile)
            /\ (~isLive(n) /\ directory[n] # NoProfile)
                  => \/ out' = <<Msg("createFailed", Null)>>
                     \/ SpawnedOk(n)'
            /\ ~SpawnedOk(n)'
                  => /\ out' \in {<<Msg("alreadySpawned", n)>>,
                                  <<Msg("twinNotFoundImportFirst", n)>>,
                                  <<Msg("createFailed", Null)>>}
                     /\ spawnedEntities' = spawnedEntities
                     /\ entities' = entities]_vars

C5_Witness ==
    \E n \in Names :
        /\ last = Label("spawn", n, TRUE)
        /\ out = <<Msg("createFailed", Null)>>
        /\ directory[n] # NoProfile
        /\ ~isLive(n)

\* C10: a name becomes live only by a successful spawn of that name; when a
\* live instance terminates by itself the name is no longer live; and a spawn
\* of a name that has a profile and a dead registered instance is not answered
\* "already spawned": it registers a new live instance unless the entity
\* construction fails.
C10_RespawnAfterSelfTermination ==
    [][\A n \in Names :
        /\ (~isLive(n) /\ isLive(n)') => SpawnedOk(n)'
        /\ (last' = Label("die", n, TRUE) /\ isLive(n))
              => /\ ~isLive(n)'
                 /\ spawnedEntities' = spawnedEntities
        /\ (/\ last' = Label("spawn", n, TRUE)
            /\ spawnedEntities[n] # NoEntity
            /\ ~entities[spawnedEntities[n]].alive
            /\ directory[n] # NoProfile)
              => \/ out' = <<Msg("createFailed", Null)>>
                 \/ (SpawnedOk(n)' /\ isLive(n)' /\ spawnedEntities'[n] # spawnedEntities[n])]_vars

C10_Witness ==
    \E n \in Names :
        /\ SpawnedOk(n)
        /\ isLive(n)
        /\ \E e \in 1..Len(entities) :
              entities[e].twin = n /\ ~entities[e].alive /\ e # spawnedEntities[n]

\* The names a listing shows: one entry per stored profile, in NameOrder.
Listed(o) == [i \in 1..(Len(o) - 1) |-> o[i + 1].a]

RECURSIVE StoredDisplayNames(_)
StoredDisplayNames(i) ==
    IF i > Len(NameOrder) THEN <<>>
    ELSE (IF directory[NameOrder[i]] = NoProfile THEN <<>>
          ELSE <<directory[NameOrder[i]].display_name>>) \o StoredDisplayNames(i + 1)

\* C4: no step of an import whose download fails writes the Directory: not the
\* command, not the failing download, not the task that reports it; the
\* failure is queued for the server thread and delivered as the "failed to
\* import" notification; and a listing shows the stored profiles and nothing
\* else.
C4_FailedImportLeavesDirectory ==
    [][/\ last'.op = "import" => directory' = directory
       /\ last' = Label("downloadFail", Null, TRUE)
             => /\ directory' = directory
                /\ mainQueue' = Append(mainQueue, Task("importFail", Null, NoProfile, Null, NoResponse))
       /\ last' = Label("importFail", Null, TRUE)
             => /\ directory' = directory
                /\ out' = <<Msg("importFailed", Null)>>
       /\ last' = Label("list", Null, TRUE)
             => /\ directory' = directory
                /\ IF StoredDisplayNames(1) = <<>>
                   THEN out' = <<Msg("noTwins", Null)>>
                   ELSE Listed(out') = StoredDisplayNames(1)]_vars

C4_Witness ==
    /\ last = Label("importFail", Null, TRUE)
    /\ out = <<Msg("importFailed", Null)>>
    /\ directory["maya"] = NoProfile

\* C8: a message from a player answers "twin not found" exactly when the
\* Directory has no profile for the name; otherwise, whatever the Registry
\* holds for the name, it answers "thinking" and launches the Gateway call
\* with the stored profile, and that call carries the profile's endpoint and
\* twin id and the text.
C8_MessageNeedsProfileOnly ==
    [][/\ \A n \in Names :
            last' = Label("chat", n, TRUE) =>
                /\ (out' = <<Msg("twinNotFound", n)>>) <=> directory[n] = NoProfile
                /\ directory[n] = NoProfile => workers' = workers
                /\ directory[n] # NoProfile
                      => /\ out' = <<Msg("thinking", directory[n].display_name)>>
                         /\ \E m \in Texts :
                               workers' = Append(workers, Task("chat", Null, directory[n], m, NoResponse))
       /\ last'.op \in {"sendOk", "sendFail"}
             => \E i \in 1..Len(workers) :
                   /\ workers[i].k = "chat"
                   /\ workers' = RemoveAt(workers, i)
                   /\ net' = <<[op |-> "sendMessage", url |-> workers[i].twin.api_endpoint,
                                twin_id |-> workers[i].twin.twin_id, text |-> workers[i].text]>>]_vars

C8_Witness ==
    \E n \in Names :
        /\ last = Label("chat", n, TRUE)
        /\ out = <<Msg("thinking", directory[n].display_name)>>
        /\ ~SpawnedBefore(n)
        /\ spawnedEntities[n] = NoEntity
        /\ workers # <<>>

\* C9: along the scenario import "maya", spawn "maya", message "maya" "hello",
\* remove "maya", list, started with nothing stored and nothing spawned: the
\* fetched profile is stored under "maya" with display name "Maya"; after the
\* spawn "maya" is live; the Gateway is called with the stored endpoint and
\* twin id and the text "hello"; after the remove the Registry has no entry
\* for "maya" and it is not live; and the listing is "Maya (Not spawned)".
C9_Scenario ==
    /\ scen >= 2 => /\ directory["maya"] \in Profiles
                    /\ directory["maya"].name = "maya"
                    /\ directory["maya"].display_name = "Maya"
                    /\ directory["alex"] = NoProfile
    /\ scen = 3 => out[1] = Msg("loaded", "Maya")
    /\ scen = 4 => isLive("maya") /\ SpawnedOk("maya") /\ Cardinality(LiveInstances("maya")) = 1
    /\ scen = 5 => out = <<Msg("thinking", "Maya")>>
    /\ scen = 6 => net = <<[op |-> "sendMessage", url |-> directory["maya"].api_endpoint,
                           twin_id |-> directory["maya"].twin_id, text |-> "hello"]>>
    /\ scen = 7 => out[1] = Msg("reply", "[Maya] hi")
    /\ scen = 8 => /\ out = <<Msg("despawned", "maya")>>
                   /\ spawnedEntities["maya"] = NoEntity
                   /\ ~isLive("maya")
                   /\ LiveInstances("maya") = {}
    /\ scen = 9 => /\ out = <<Msg("listHeader", Null), Msg("entryNotSpawned", "Maya")>>
                   /\ ~isLive("maya")

C9_Witness == scen = 9

\* C2: two spawns of one imported, not live name that run concurrently end
\* with one success and one "already spawned", and no two entities of one name
\* are alive in the world together.
C2_ExactlyOneSpawnSucceeds ==
    \A n \in Names :
        /\ Cardinality(LiveInstances(n)) <= 1
        /\ (/\ thr[1].name = n /\ thr[2].name = n
            /\ thr[1].res = "ok" /\ thr[2].res = "ok")
              => ~(entities[thr[1].ent].alive /\ entities[thr[2].ent].alive)

\* C6: for a username u without '/' and '.', the imports of u, of "@" + u
\* and of the username-lookup URL of u all fetch the username-lookup URL of u.
C6_SameCanonicalUrl ==
    \A u \in Usernames :
        (/\ last.op = "import"
         /\ last.player
         /\ last.arg \in {u, "@" \o u, UsernameLookup \o u})
            => /\ workers # <<>>
               /\ workers[Len(workers)].url = UsernameLookup \o u

EndsWith(s, p) == Len(s) >= Len(p) /\ SubSeq(s, Len(s) - Len(p) + 1, Len(s)) = p

\* The endpoint with its trailing chat-path segment removed.
StripTrailing(s, seg) == IF EndsWith(s, seg) THEN SubSeq(s, 1, Len(s) - Len(seg)) ELSE s

IsAbsolute(locator) == StartsWith(locator, "http://") \/ StartsWith(locator, "https://")

\* C7: the task that delivers a reply plays no audio when the audio locator
\* is absent or empty, plays the locator itself when it is absolute, and
\* otherwise plays the endpoint without its trailing "/api/speak", followed by
\* the locator.
C7_AudioUrlResolved ==
    [][(/\ mainQueue # <<>>
        /\ Head(mainQueue).k = "chatOk"
        /\ last'.op = "chatOk"
        /\ mainQueue' = Tail(mainQueue))
          => audio' =
               IF IsNullOrEmpty(Head(mainQueue).resp.audioUrl) THEN <<>>
               ELSE IF IsAbsolute(Head(mainQueue).resp.audioUrl)
                    THEN <<Head(mainQueue).resp.audioUrl>>
               ELSE <<StripTrailing(Head(mainQueue).twin.api_endpoint, ChatPath)
                        \o Head(mainQueue).resp.audioUrl>>]_vars

\* C11: a step of a worker (the coroutine of an import or of a message)
\* touches no shared state: it leaves the Directory as it is, sends no
\* notification and plays no audio; it only calls the network and posts a
\* task to the server thread.
C11_WorkersTouchNoSharedState ==
    [][last'.op \in {"downloadOk", "downloadFail", "sendOk", "sendFail"}
          => /\ directory' = directory
             /\ out' = <<>>
             /\ audio' = <<>>
             /\ spawnedEntities' = spawnedEntities
             /\ entities' = entities]_vars

WorkerOps == {"downloadOk", "downloadFail", "sendOk", "sendFail"}

ExecuteOps == {"importOk", "importFail", "chatOk", "chatFail"}

\* The notification that ends a command, for each posted task.
TerminalOf(k) ==
    CASE k = "importOk" -> "loaded"
      [] k = "importFail" -> "importFailed"
      [] k = "chatOk" -> "reply"
      [] OTHER -> "chatFailed"

Terminals(o) ==
    {i \in 1..Len(o) : o[i].t \in {"loaded", "importFailed", "reply", "chatFailed"}}

HasWorker(k) == \E i \in 1..Len(workers) : workers[i].k = k

\* C12: a launched coroutine ends by posting exactly one task, the success
\* task or the failure task; a posted task sends exactly one terminal
\* notification, the one of its kind; no other step sends a terminal
\* notification or drops a coroutine or a task; and with the coroutines and
\* the server thread scheduled fairly every launched import and message is
\* followed by its success or failure notification.
C12_OneTerminalOutcome ==
    /\ [][/\ last'.op \in WorkerOps
               => /\ Len(workers') = Len(workers) - 1
                  /\ Len(mainQueue') = Len(mainQueue) + 1
                  /\ SubSeq(mainQueue', 1, Len(mainQueue)) = mainQueue
                  /\ mainQueue'[Len(mainQueue')].k
                        = (CASE last'.op = "downloadOk" -> "importOk"
                             [] last'.op = "downloadFail" -> "importFail"
                             [] last'.op = "sendOk" -> "chatOk"
                             [] OTHER -> "chatFail")
                  /\ Terminals(out') = {}
          /\ last'.op \in ExecuteOps
               => /\ mainQueue' = Tail(mainQueue)
                  /\ workers' = workers
                  /\ Terminals(out') = {1}
                  /\ out'[1].t = TerminalOf(Head(mainQueue).k)
          /\ last'.op \notin (WorkerOps \cup ExecuteOps)
               => /\ mainQueue' = mainQueue
                  /\ SubSeq(workers', 1, Len(workers)) = workers
                  /\ Terminals(out') = {}]_vars
    /\ HasWorker("import") ~> (last.op \in {"importOk", "importFail"})
    /\ HasWorker("chat") ~> (last.op \in {"chatOk", "chatFail"})

C12_Witness ==
    /\ last.op = "chatFail"
    /\ out = <<Msg("chatFailed", Null), Msg("connectivityHint", Null)>>
    /\ workers = <<>>
    /\ mainQueue = <<>>

Stored == {n \in Names : directory[n] # NoProfile}

\* C13: a listing of an empty Directory sends the single "no twins imported"
\* message; a listing of a non-empty Directory sends the header and exactly
\* one entry per stored profile, the entry of a profile marked spawned exactly
\* when the registry holds a live entity under the profile's name.
C13_ListShowsProfilesAndLiveness ==
    [][last' = Label("list", Null, TRUE)
          => IF Stored = {}
             THEN out' = <<Msg("noTwins", Null)>>
             ELSE /\ out'[1] = Msg("listHeader", Null)
                  /\ Len(out') = 1 + Cardinality(Stored)
                  /\ \A n \in Stored :
                        \E i \in 2..Len(out') :
                            /\ out'[i] = Msg(IF isLive(n) THEN "entrySpawned"
                                             ELSE "entryNotSpawned",
                                             directory[n].display_name)
                            /\ \A j \in 2..Len(out') :
                                  out'[j].a = directory[n].display_name => j = i]_vars

C13_Witness ==
    /\ last = Label("list", Null, TRUE)
    /\ Len(out) = 3
    /\ \E i \in 2..3 : out[i].t = "entrySpawned"
    /\ \E n \in Stored :
          /\ spawnedEntities[n] # NoEntity
          /\ ~entities[spawnedEntities[n]].alive
          /\ \E i \in 2..3 : out[i] = Msg("entryNotSpawned", directory[n].display_name)

\* The statement of C14 as written: once a profile is stored under a name, no
\* step changes the twin_id, api_endpoint or display_name stored under it.
C14_StoredProfileNeverChanges ==
    [][\A n \in Names :
          directory[n] # NoProfile
              => /\ directory'[n] # NoProfile
                 /\ directory'[n].twin_id = directory[n].twin_id
                 /\ directory'[n].api_endpoint = directory[n].api_endpoint
                 /\ directory'[n].display_name = directory[n].display_name]_vars

\* C14: a stored profile is never deleted, and the record under a name changes
\* only in the step of an import whose download succeeded with a record of
\* that name, which takes the place of the old record whole; list, spawn,
\* message and remove commands, failed imports and the posted tasks leave
\* every stored record as it is.
C14_StoredProfileKeptOrReplaced ==
    [][\A n \in Names :
          directory[n] # NoProfile
              => /\ directory'[n] # NoProfile
                 /\ directory'[n] # directory[n]
                      => /\ last' = Label("downloadOk", n, TRUE)
                         /\ directory'[n] = mainQueue'[Len(mainQueue')].twin
                         /\ directory'[n] \in Profiles
                         /\ directory'[n].name = n]_vars

C14_Witness ==
    /\ last = Label("downloadOk", "maya", TRUE)
    /\ directory["maya"] = Maya2
    /\ directory["alex"] = Alex1
    /\ spawnedEntities["maya"] # NoEntity

\* The record a successful download step fetched (it is in the task it posts).
Fetched == mainQueue[Len(mainQueue)].twin

\* C15: the step that stores a downloaded record writes it under the record's
\* own name whatever locator the import was given, leaves one record under
\* that name and every other name as it was; storing a record that is already
\* stored leaves the Directory as it is.
C15_UpsertKeyedByNameIdempotent ==
    [][last'.op = "downloadOk"
          => /\ last'.arg = Fetched'.name
             /\ directory' = [directory EXCEPT ![Fetched'.name] = Fetched']
             /\ directory[Fetched'.name] = Fetched' => directory' = directory]_vars

C15_Witness ==
    /\ last = Label("downloadOk", "maya", TRUE)
    /\ net[1].url = "saves/alex.json"
    /\ Len(mainQueue) = 2
    /\ mainQueue[1].twin = Maya1
    /\ mainQueue[2].twin = Maya1
    /\ directory = [n \in Names |-> IF n = "maya" THEN Maya1 ELSE NoProfile]

Rejections == {"alreadySpawned", "twinNotFoundImportFirst", "createFailed", "notSpawned"}

\* C16: a message to a name with no stored profile answers "twin not found"
\* in the command's own step, with no "thinking" notification, no network
\* call and no coroutine launched; a spawn of a live name, a spawn of a name
\* with no profile and a remove of a name that is not live are rejected in
\* the command's own step; and a rejected spawn or remove sends its rejection
\* alone, makes no network call, launches nothing and creates or discards no
\* entity.
C16_LocalErrorsBeforeAnyCall ==
    [][/\ \A n \in Names :
            /\ (last' = Label("chat", n, TRUE) /\ directory[n] = NoProfile)
                  => /\ out' = <<Msg("twinNotFound", n)>>
                     /\ net' = <<>>
                     /\ workers' = workers
                     /\ mainQueue' = mainQueue
            /\ (last' = Label("spawn", n, TRUE) /\ isLive(n))
                  => out' = <<Msg("alreadySpawned", n)>>
            /\ (last' = Label("spawn", n, TRUE) /\ ~isLive(n) /\ directory[n] = NoProfile)
                  => out' = <<Msg("twinNotFoundImportFirst", n)>>
            /\ (last' = Label("remove", n, TRUE) /\ ~isLive(n))
                  => out' = <<Msg("notSpawned", n)>>
       /\ (last'.op \in {"spawn", "remove"} /\ out' # <<>> /\ out'[1].t \in Rejections)
            => /\ Len(out') = 1
               /\ net' = <<>>
               /\ workers' = workers
               /\ mainQueue' = mainQueue
               /\ entities' = entities
               /\ spawnedEntities' = spawnedEntities]_vars

C16_Witness ==
    /\ last = Label("chat", "alex", TRUE)
    /\ out = <<Msg("twinNotFound", "alex")>>
    /\ Len(workers) = 1
    /\ \E n \in Names : spawnedEntities[n] # NoEntity /\ ~entities[spawnedEntities[n]].alive

\* The fetch URL by the stated precedence: an absolute URL as it is, "@" and
\* a username, a bare username, anything else as it is.
ByPrecedence(locator) ==
    IF IsAbsolute(locator) THEN locator
    ELSE IF StartsWith(locator, "@")
         THEN UsernameLookup \o SubSeq(locator, 2, Len(locator))
    ELSE IF ~Contains(locator, "/") /\ ~Contains(locator, ".")
         THEN UsernameLookup \o locator
    ELSE locator

\* C17: an import by a player launches the download of the URL the stated
\* precedence gives for its locator; a bare username that is not an absolute
\* URL is fetched through the username-lookup URL whatever its first letters.
C17_FetchUrlByPrecedence ==
    (last.op = "import" /\ last.player)
        => /\ workers # <<>>
           /\ workers[Len(workers)].url = ByPrecedence(last.arg)

\* C18: a remove that sends the "Despawned" confirmation has looked up an
\* entity under the name and discarded it; no remove confirms after finding
\* nothing to discard, whatever dies or is removed between its liveness check
\* and its lookup.
C18_ConfirmedRemoveDiscarded ==
    \A t \in Threads :
        thr[t].pc = "confirmed" => thr[t].res \in {"terminated", "wasDead"}

\* C19: the step of an import or of a message with a stored profile sends
\* the immediate notification alone, makes no network call and launches one
\* coroutine; coroutines are launched by those steps only and tasks are posted
\* by coroutine steps only, so the terminal notification of a command comes
\* after its immediate one; a coroutine step makes exactly one network call
\* and launches nothing; the task that reports the outcome makes no call and
\* launches nothing, after a failure as after a success.
C19_NoticeFirstOneCallNoRetry ==
    [][/\ (last'.op = "import" /\ last'.player)
            => /\ out' = <<Msg("downloading", Null)>>
               /\ net' = <<>>
               /\ Len(workers') = Len(workers) + 1
               /\ mainQueue' = mainQueue
       /\ (last'.op = "chat" /\ last'.player /\ directory[last'.arg] # NoProfile)
            => /\ out' = <<Msg("thinking", directory[last'.arg].display_name)>>
               /\ net' = <<>>
               /\ Len(workers') = Len(workers) + 1
               /\ mainQueue' = mainQueue
       /\ Len(workers') > Len(workers)
            => /\ last'.op \in {"import", "chat"}
               /\ out'[1].t \in {"downloading", "thinking"}
       /\ Len(mainQueue') > Len(mainQueue) => last'.op \in WorkerOps
       /\ last'.op \in WorkerOps
            => /\ Len(net') = 1
               /\ net'[1].op = (IF last'.op \in {"downloadOk", "downloadFail"}
                                THEN "downloadTwin" ELSE "sendMessage")
               /\ Len(workers') = Len(workers) - 1
       /\ last'.op \in ExecuteOps
            => /\ net' = <<>>
               /\ workers' = workers
               /\ Len(mainQueue') = Len(mainQueue) - 1
       /\ net' # <<>> => last'.op \in WorkerOps]_vars

C19_Witness ==
    /\ last.op = "importFail"
    /\ out = <<Msg("importFailed", Null)>>
    /\ net = <<>>
    /\ workers = <<>>
    /\ mainQueue = <<>>
    /\ directory["maya"] # NoProfile

\* C20: with several imports outstanding and their coroutines finishing in
\* any order, every successful download stores the whole fetched record under
\* its name and leaves every other name's record as it was, and a failed one
\* leaves the Directory alone; so the Directory holds, under each name,
\* nothing or one whole record of that name, the last one stored.
C20_OutstandingImportsKeepRecordsWhole ==
    /\ [](\A n \in Names :
             directory[n] = NoProfile \/ (directory[n] \in Profiles /\ directory[n].name = n))
    /\ [][/\ last'.op = "downloadOk"
               => \A n \in Names :
                     directory'[n] = IF n = Fetched'.name THEN Fetched' ELSE directory[n]
          /\ last'.op # "downloadOk" => directory' = directory]_vars

C20_Witness ==
    /\ last = Label("downloadOk", "alex", TRUE)
    /\ net[1].url = "saves/alex.json"
    /\ Len(workers) = 1
    /\ workers[1].url = UsernameLookup \o "maya"
    /\ directory["alex"] = Alex1
    /\ directory["maya"] = Maya1

\* C21: every name with an entry in spawnedEntities, live or stale, has a
\* profile in the Directory.
C21_RegisteredNamesHaveProfiles ==
    \A n \in Names : spawnedEntities[n] # NoEntity => directory[n] # NoProfile

C21_Witness ==
    /\ \A n \in Names : spawnedEntities[n] # NoEntity
    /\ \E n \in Names : ~entities[spawnedEntities[n]].alive
    /\ last.op = "remove"

\* The entry of a name points at an entity that is no longer alive.
Stale(n) ==
    /\ spawnedEntities[n] # NoEntity
    /\ ~entities[spawnedEntities[n]].alive

\* C22: an entity that terminates by itself leaves its entry in
\* spawnedEntities; a stale entry is left as it is by every step except a
\* successful spawn of the same name, which puts the new live entity in its
\* place; and a remove of a name with a stale entry answers "not currently
\* spawned".
C22_StaleEntryStaysUntilRespawn ==
    [][/\ last'.op = "die" => spawnedEntities' = spawnedEntities
       /\ \A n \in Names :
            Stale(n)
               => /\ \/ spawnedEntities'[n] = spawnedEntities[n]
                     \/ /\ last' = Label("spawn", n, TRUE)
                        /\ out'[1].t = "spawned"
                        /\ spawnedEntities'[n] = Len(entities')
                        /\ Len(entities') = Len(entities) + 1
                        /\ entities'[Len(entities')].alive
                  /\ last' = Label("remove", n, TRUE)
                        => /\ out' = <<Msg("notSpawned", n)>>
                           /\ spawnedEntities' = spawnedEntities
                           /\ entities' = entities
                  /\ last'.op \in {"list", "chat", "remove"}
                        => spawnedEntities'[n] = spawnedEntities[n]]_vars

C22_Witness ==
    /\ last = Label("remove", "maya", TRUE)
    /\ out = <<Msg("notSpawned", "maya")>>
    /\ Stale("maya")
    /\ directory["maya"] # NoProfile

\* C23: a command whose source is not a player changes neither the Directory
\* nor spawnedEntities, creates or discards no entity, launches no coroutine,
\* posts no task, makes no network call, plays nothing and sends no message.
C23_NonPlayerCommandHasNoEffect ==
    [][~last'.player
          => /\ last'.op \in {"import", "list", "spawn", "chat", "remove"}
             /\ directory' = directory
             /\ spawnedEntities' = spawnedEntities
             /\ entities' = entities
             /\ workers' = workers
             /\ mainQueue' = mainQueue
             /\ out' = <<>>
             /\ net' = <<>>
             /\ audio' = <<>>]_vars

C23_Witness ==
    /\ last = Label("spawn", Null, FALSE)
    /\ directory["maya"] # NoProfile
    /\ ~isLive("maya")
    /\ Len(entities) < MaxEntities
    /\ workers # <<>>

SubmitFailures == {"submitFailed", "detectFailed", "prepareFailed", "postFailed"}

\* C24: onComplete is called only by a submit that saw all five slots filled,
\* face detection ready and at least 468 landmarks, and whose POST succeeded;
\* a submit with a missing photo only alerts: uploading and processingFace
\* stay false and nothing is started; every failure after the start leaves
\* uploading and processingFace false, leaves nothing pending and calls
\* onComplete not at all.
C24_OnCompleteOnlyAfterFullWorkflow ==
    [][/\ completed' # completed
            => /\ completed' = completed + 1
               /\ run.pc = "timer"
               /\ run.photos = Slots
               /\ run.ready
               /\ run.landmarks >= 468
               /\ run.posted
       /\ (run'.ev \in {"submitRejected", "submitFailed", "submitStarted"} /\ photos # Slots)
            => /\ run'.ev = "submitRejected"
               /\ alerts' = <<"allPhotos">>
               /\ ~uploading'
               /\ ~processingFace'
               /\ run'.pc = "idle"
               /\ progress' = progress
               /\ completed' = completed
       /\ run'.ev \in SubmitFailures
            => /\ ~uploading'
               /\ ~processingFace'
               /\ run'.pc = "idle"
               /\ completed' = completed]_vars

C24_Witness ==
    /\ completed = 1
    /\ run.ev = "completed"
    /\ run.landmarks = 468
    /\ ~uploading
    /\ ~processingFace
    /\ progress = 100

====
